---- MODULE Spec2Model ----
(***************************************************************************)
(* State-machine model of the two conversational coach scripts:            *)
(*   v-ing_agents/experience_retriever_agent.py  (event tracker)           *)
(*   v-ing_agents/introduction_agent.py          (profile tracker)         *)
(* The language model and the agent runtime are the environment: in a turn *)
(* the runtime may call any registered tool, any number of times, with any *)
(* arguments.  The tools and the run loops are translated from the code.   *)
(***************************************************************************)
EXTENDS Integers, Sequences, FiniteSets, TLC

VARIABLES
    script,                 \* which script's __main__ is running
    pc,                     \* position in the script's run loop
    session_state,          \* the agent's session_state (a dict), passed to every tool
    profile_memory,         \* introduction agent: the module-level profile_memory dict
    user_message,           \* experience agent: run loop local, stripped
    result,                 \* experience agent: value returned by run_experience_session
    tool_calls,             \* tool calls the runtime made in the current turn
    last_tool,              \* name of the last tool called in the current turn
    ret,                    \* return value of that call
    awaiting_confirmation   \* history: summary shown and no field stored since

vars == <<script, pc, session_state, profile_memory, user_message, result,
          tool_calls, last_tool, ret, awaiting_confirmation>>

---------------------------------------------------------------------------
(* Bounds of the model.                                                    *)

\* Tool calls the runtime makes while answering one user message.
MaxToolCalls == 2

---------------------------------------------------------------------------
(* Python values.  A value is tagged with its type; a dict is a function   *)
(* from keys (strings) to values; a str is a TLA+ string.                  *)

None == [type |-> "NoneType", val |-> ""]
PyStr(s) == [type |-> "str", val |-> s]
PyInt(n) == [type |-> "int", val |-> n]
PyBool(b) == [type |-> "bool", val |-> b]

IsDict(v) == "type" \notin DOMAIN v

EmptyDict == [k \in {} |-> None]

\* bool(v): Python truthiness.
Truthy(v) ==
    IF IsDict(v) THEN DOMAIN v # {}
    ELSE CASE v.type = "NoneType" -> FALSE
           [] v.type = "bool" -> v.val
           [] v.type = "str" -> v.val # ""
           [] v.type = "int" -> v.val # 0

\* a or b
PyOr(a, b) == IF Truthy(a) THEN a ELSE b

\* d.get(k)
Get(d, k) == IF k \in DOMAIN d THEN d[k] ELSE None

\* d.get(k, default)
GetOr(d, k, default) == IF k \in DOMAIN d THEN d[k] ELSE default

\* d[k] = v
Put(d, k, v) == [x \in DOMAIN d \cup {k} |-> IF x = k THEN v ELSE d[x]]

\* d.setdefault(k, v)
SetDefault(d, k, v) == IF k \in DOMAIN d THEN d ELSE Put(d, k, v)

Whitespace == {" ", "\t", "\n"}

RECURSIVE LStrip(_)
LStrip(s) ==
    IF Len(s) = 0 THEN s
    ELSE IF Head(s) \in Whitespace THEN LStrip(Tail(s)) ELSE s

RECURSIVE RStrip(_)
RStrip(s) ==
    IF Len(s) = 0 THEN s
    ELSE IF SubSeq(s, Len(s), Len(s)) \in Whitespace
         THEN RStrip(SubSeq(s, 1, Len(s) - 1)) ELSE s

\* s.strip()
Strip(s) == RStrip(LStrip(s))

UpperCase == "ABCDEFGHIJKLMNOPQRSTUVWXYZ"
LowerCase == "abcdefghijklmnopqrstuvwxyz"

LowerChar(c) ==
    IF \E i \in 1..Len(UpperCase) : SubSeq(UpperCase, i, i) = c
    THEN LET i == CHOOSE j \in 1..Len(UpperCase) : SubSeq(UpperCase, j, j) = c
         IN SubSeq(LowerCase, i, i)
    ELSE c

\* s.lower()
RECURSIVE Lower(_)
Lower(s) == IF Len(s) = 0 THEN s ELSE LowerChar(Head(s)) \o Lower(Tail(s))

\* sep.join(seq) for a sequence of strings
RECURSIVE Join(_, _)
Join(sep, seq) ==
    IF Len(seq) = 0 THEN ""
    ELSE IF Len(seq) = 1 THEN seq[1]
    ELSE seq[1] \o sep \o Join(sep, Tail(seq))

\* str(v)
ToStr(v) ==
    CASE v.type = "str" -> v.val
      [] v.type = "int" -> ToString(v.val)
      [] v.type = "NoneType" -> "None"
      [] v.type = "bool" -> IF v.val THEN "True" ELSE "False"

Range(seq) == {seq[i] : i \in DOMAIN seq}

---------------------------------------------------------------------------
(* experience_retriever_agent.py                                           *)

REQUIRED_EVENT_FIELDS ==
    <<"event_overview", "when_happened", "what_happened", "peak_moment">>

CONFIRMATION_PHRASES ==
    { "yes", "yes.", "yes!", "yes, that's right", "yes that's right",
      "yes, correct", "correct", "correct.", "correct!", "that's correct",
      "that's right", "that is correct", "looks good", "looks good.",
      "looks good to me", "sounds good", "sounds good.", "sounds right",
      "all good", "all good.", "perfect", "perfect.", "confirmed",
      "confirmed.", "absolutely", "absolutely." }

\* The words that end the session (line 288).
EXIT_WORDS == {"exit", "quit", "bye", "stop"}

\* Mutant of _is_confirmation_phrase: the text is not lowercased.
_is_confirmation_phrase_case_sensitive(text) ==
    Strip(text) \in CONFIRMATION_PHRASES

_is_confirmation_phrase(text) == Lower(Strip(text)) \in CONFIRMATION_PHRASES

\* str(value).strip() is non-empty, for the values a record holds
StrStripNonEmpty(value) == Strip(ToStr(value)) # ""

_all_required_fields_present(ss) ==
    LET current_event == GetOr(ss, "current_event", EmptyDict)
    IN \A i \in DOMAIN REQUIRED_EVENT_FIELDS :
          LET value == Get(current_event, REQUIRED_EVENT_FIELDS[i])
          IN Truthy(value) /\ StrStripNonEmpty(value)

\* Returns the session state with the "current_event" container in place.
_ensure_event_container(ss) == SetDefault(ss, "current_event", EmptyDict)

\* Mutant of update_single_field: a stored field is also written into the
\* finalized snapshot when there is one.
update_single_field_syncs_snapshot(ss, field_name, field_value) ==
    LET name == Strip(field_name)
        value == Strip(PyOr(field_value, PyStr("")).val)
    IN IF name \notin Range(REQUIRED_EVENT_FIELDS)
       THEN [state |-> ss,
             ret |-> PyStr("Invalid field. Use one of: "
                             \o Join(", ", REQUIRED_EVENT_FIELDS))]
       ELSE IF value = ""
       THEN [state |-> ss, ret |-> PyStr("No update made to " \o name \o ".")]
       ELSE LET ss1 == _ensure_event_container(ss)
                ss2 == Put(ss1, "current_event",
                           Put(ss1["current_event"], name, PyStr(value)))
            IN [state |-> IF "completed_event" \in DOMAIN ss2
                          THEN Put(ss2, "completed_event",
                                   Put(ss2["completed_event"], name, PyStr(value)))
                          ELSE ss2,
                ret |-> PyStr("Stored " \o name \o ".")]

\* Mutant of update_single_field: the value is stored as passed, untrimmed.
update_single_field_no_trim(ss, field_name, field_value) ==
    LET name == Strip(field_name)
        value == PyOr(field_value, PyStr("")).val
    IN IF name \notin Range(REQUIRED_EVENT_FIELDS)
       THEN [state |-> ss,
             ret |-> PyStr("Invalid field. Use one of: "
                             \o Join(", ", REQUIRED_EVENT_FIELDS))]
       ELSE IF Strip(value) = ""
       THEN [state |-> ss, ret |-> PyStr("No update made to " \o name \o ".")]
       ELSE LET ss1 == _ensure_event_container(ss)
            IN [state |-> Put(ss1, "current_event",
                              Put(ss1["current_event"], name, PyStr(value))),
                ret |-> PyStr("Stored " \o name \o ".")]

\* Mutant of update_single_field: the check for an empty value is missing.
update_single_field_stores_empty(ss, field_name, field_value) ==
    LET name == Strip(field_name)
        value == Strip(PyOr(field_value, PyStr("")).val)
    IN IF name \notin Range(REQUIRED_EVENT_FIELDS)
       THEN [state |-> ss,
             ret |-> PyStr("Invalid field. Use one of: "
                             \o Join(", ", REQUIRED_EVENT_FIELDS))]
       ELSE LET ss1 == _ensure_event_container(ss)
            IN [state |-> Put(ss1, "current_event",
                              Put(ss1["current_event"], name, PyStr(value))),
                ret |-> PyStr("Stored " \o name \o ".")]

\* The tool's effect: [state |-> session state after the call, ret |-> value returned].
update_single_field(ss, field_name, field_value) ==
    LET name == Strip(field_name)
        value == Strip(PyOr(field_value, PyStr("")).val)
    IN IF name \notin Range(REQUIRED_EVENT_FIELDS)
       THEN [state |-> ss,
             ret |-> PyStr("Invalid field. Use one of: "
                             \o Join(", ", REQUIRED_EVENT_FIELDS))]
       ELSE IF value = ""
       THEN [state |-> ss, ret |-> PyStr("No update made to " \o name \o ".")]
       ELSE LET ss1 == _ensure_event_container(ss)
            IN [state |-> Put(ss1, "current_event",
                              Put(ss1["current_event"], name, PyStr(value))),
                ret |-> PyStr("Stored " \o name \o ".")]

\* sorted(applied.keys()): only required field names are ever applied, and
\* Python orders these four strings as listed here.
SORTED_EVENT_FIELDS ==
    <<"event_overview", "peak_moment", "what_happened", "when_happened">>

SortedKeys(keys) ==
    LET F[i \in 0..Len(SORTED_EVENT_FIELDS)] ==
            IF i = 0 THEN <<>>
            ELSE IF SORTED_EVENT_FIELDS[i] \in keys
                 THEN Append(F[i - 1], SORTED_EVENT_FIELDS[i])
                 ELSE F[i - 1]
    IN F[Len(SORTED_EVENT_FIELDS)]

\* Mutant of ApplyEventUpdates: the value is stored as given, not stripped.
RECURSIVE ApplyEventUpdates_untrimmed(_, _)
ApplyEventUpdates_untrimmed(acc, updates) ==
    IF Len(updates) = 0 THEN acc
    ELSE LET field == updates[1][1]
             value == updates[1][2]
         IN IF field \in Range(REQUIRED_EVENT_FIELDS)
               /\ Truthy(value) /\ Strip(value.val) # ""
            THEN ApplyEventUpdates_untrimmed(
                     [event |-> Put(acc.event, field, value),
                      applied |-> acc.applied \cup {field}],
                     Tail(updates))
            ELSE ApplyEventUpdates_untrimmed(acc, Tail(updates))

\* The loop of update_multiple_fields over updates.items(), in the mapping's
\* order; `updates` is the sequence of its (field, value) items.
\* acc = [event |-> current_event, applied |-> keys of `applied`].
RECURSIVE ApplyEventUpdates(_, _)
ApplyEventUpdates(acc, updates) ==
    IF Len(updates) = 0 THEN acc
    ELSE LET field == updates[1][1]
             value == updates[1][2]
         IN IF field \in Range(REQUIRED_EVENT_FIELDS)
               /\ Truthy(value) /\ Strip(value.val) # ""
            THEN ApplyEventUpdates(
                     [event |-> Put(acc.event, field, PyStr(Strip(value.val))),
                      applied |-> acc.applied \cup {field}],
                     Tail(updates))
            ELSE ApplyEventUpdates(acc, Tail(updates))

update_multiple_fields(ss, updates) ==
    LET ss1 == _ensure_event_container(ss)
        done == ApplyEventUpdates(
                    [event |-> ss1["current_event"], applied |-> {}], updates)
        ss2 == Put(ss1, "current_event", done.event)
    IN IF done.applied = {}
       THEN [state |-> ss2, ret |-> PyStr("No valid fields provided.")]
       ELSE [state |-> ss2,
             ret |-> PyStr("Stored fields: "
                             \o Join(", ", SortedKeys(done.applied)))]

confirm_data_from_user(ss) ==
    LET current_event == GetOr(ss, "current_event", EmptyDict)
    IN [state |-> ss,
        ret |-> [status |-> PyStr("awaiting_confirmation"),
                 collected_data |-> current_event,
                 message |-> PyStr("Please review the summary above")]]

\* Mutant of _finalize_completed_event: the flag is set, the snapshot is not stored.
_finalize_completed_event_flag_only(ss) ==
    LET experience_no == GetOr(ss, "experience_no", PyInt(1))
        current_event == GetOr(ss, "current_event", EmptyDict)
    IN [state |-> Put(ss, "session_complete", PyBool(TRUE)),
        event_details |->
            [event_id |-> experience_no,
             event_number |-> experience_no,
             event_phase |-> PyOr(Get(ss, "stage"),
                                  PyStr("experience_" \o ToStr(experience_no))),
             name |-> Get(ss, "name"),
             age |-> IF Get(ss, "age") # None
                     THEN PyStr(ToStr(Get(ss, "age"))) ELSE None,
             current_occupation |-> Get(ss, "current_occupation"),
             desired_career |-> Get(ss, "desired_career"),
             work_experience |-> Get(ss, "work_experience"),
             event_overview |-> Get(current_event, "event_overview"),
             when_happened |-> Get(current_event, "when_happened"),
             what_happened |-> Get(current_event, "what_happened"),
             peak_moment |-> Get(current_event, "peak_moment"),
             is_complete |-> PyBool(TRUE)]]

\* EventDetails(...).model_dump(); returns the state after and the details.
_finalize_completed_event(ss) ==
    LET experience_no == GetOr(ss, "experience_no", PyInt(1))
        event_phase == PyOr(Get(ss, "stage"),
                            PyStr("experience_" \o ToStr(experience_no)))
        current_event == GetOr(ss, "current_event", EmptyDict)
        event_details ==
            [event_id |-> experience_no,
             event_number |-> experience_no,
             event_phase |-> event_phase,
             name |-> Get(ss, "name"),
             age |-> IF Get(ss, "age") # None
                     THEN PyStr(ToStr(Get(ss, "age"))) ELSE None,
             current_occupation |-> Get(ss, "current_occupation"),
             desired_career |-> Get(ss, "desired_career"),
             work_experience |-> Get(ss, "work_experience"),
             event_overview |-> Get(current_event, "event_overview"),
             when_happened |-> Get(current_event, "when_happened"),
             what_happened |-> Get(current_event, "what_happened"),
             peak_moment |-> Get(current_event, "peak_moment"),
             is_complete |-> PyBool(TRUE)]
    IN [state |-> Put(Put(ss, "completed_event", event_details),
                      "session_complete", PyBool(TRUE)),
        event_details |-> event_details]

\* Mutant of missing_fields: the last required field is not looked at.
missing_fields_skips_last(ss) ==
    LET current_event == GetOr(ss, "current_event", EmptyDict)
    IN SelectSeq(SubSeq(REQUIRED_EVENT_FIELDS, 1, Len(REQUIRED_EVENT_FIELDS) - 1),
                 LAMBDA field : ~Truthy(Get(current_event, field)))

\* Mutant of missing_fields: the missing names come out in alphabetical order.
missing_fields_alphabetical(ss) ==
    LET current_event == GetOr(ss, "current_event", EmptyDict)
    IN SelectSeq(SORTED_EVENT_FIELDS,
                 LAMBDA field : ~Truthy(Get(current_event, field)))

\* The list comprehension of confirm_completeness (lines 152-155).
missing_fields(ss) ==
    LET current_event == GetOr(ss, "current_event", EmptyDict)
    IN SelectSeq(REQUIRED_EVENT_FIELDS,
                 LAMBDA field : ~Truthy(Get(current_event, field)))

confirm_completeness(ss) ==
    IF missing_fields(ss) # <<>>
    THEN [state |-> ss,
          ret |-> [status |-> PyStr("incomplete"),
                   missing_fields |-> missing_fields(ss),
                   message |-> PyStr("Still need: "
                                       \o Join(", ", missing_fields(ss)))]]
    ELSE LET fin == _finalize_completed_event(ss)
         IN [state |-> fin.state,
             ret |-> [status |-> PyStr("complete"),
                      message |-> PyStr("All experience details are confirmed and complete."),
                      event_details |-> fin.event_details]]

\* The nested copy base_state["profile_data"] is never read again and is left out.
_initial_session_state(profile_data) ==
    LET s1 == SetDefault(profile_data, "experience_no", PyInt(1))
        s2 == SetDefault(s1, "stage",
                         PyStr("experience_" \o ToStr(s1["experience_no"])))
        s3 == SetDefault(s2, "current_event", EmptyDict)
    IN SetDefault(s3, "session_complete", PyBool(FALSE))

---------------------------------------------------------------------------
(* Inputs of the experience session.                                       *)

\* _sample_profile(), a profile without experience_no and with an empty
\* stage label, and a profile without a name.
PROFILE_DATA_INPUTS ==
    { [name |-> PyStr("Sarah"), age |-> PyInt(28),
       current_occupation |-> PyStr("Marketing Manager"),
       desired_career |-> PyStr("Product Manager"),
       work_experience |-> PyStr("5 years in marketing"),
       experience_no |-> PyInt(1),
       stage |-> PyStr("Gather information for experience_1")],
      [name |-> PyStr("Al"), stage |-> PyStr("")],
      [age |-> PyInt(30)] }

\* Lines typed at the prompt.
USER_INPUTS == {"", "  ", " Yes ", "ok", " STOP"}

EVENT_FIELD_NAME_INPUTS ==
    Range(REQUIRED_EVENT_FIELDS) \cup {" peak_moment ", "mood"}

EVENT_FIELD_VALUE_INPUTS ==
    {None, PyStr(""), PyStr("  "), PyStr("trip"), PyStr(" 2019 ")}

\* `updates` mappings, each as the sequence of its (field, value) items
\* (a dict holds a key once and iterates in insertion order).
EVENT_UPDATES_INPUTS ==
    { <<>>,
      << <<"event_overview", PyStr("trip")>>, <<"when_happened", PyStr("2019")>> >>,
      << <<"what_happened", PyStr(" trip ")>>, <<"peak_moment", PyStr("2019")>> >>,
      << <<"peak_moment", PyStr("  ")>>, <<"what_happened", None>> >>,
      << <<" peak_moment ", PyStr("trip")>>, <<"mood", PyStr("trip")>> >>,
      << <<"when_happened", PyStr("trip")>>, <<"mood", PyStr("2019")>>,
         <<"event_overview", PyStr("")>> >>,
      << <<"when_happened", PyStr("2019")>>, <<"event_overview", PyStr("2019")>>,
         <<"peak_moment", PyStr("trip")>>, <<"what_happened", PyStr("trip")>> >> }

---------------------------------------------------------------------------
(* run_experience_session and the tools the runtime calls during agent.run *)

InitExperience ==
    \E profile_data \in PROFILE_DATA_INPUTS :
        /\ script = "experience_retriever_agent"
        /\ session_state = _initial_session_state(profile_data)
        /\ profile_memory = EmptyDict
        /\ pc = IF Truthy(Get(profile_data, "name")) THEN "input" ELSE "raised"
        /\ user_message = ""
        /\ result = None
        /\ tool_calls = 0
        /\ last_tool = ""
        /\ ret = None
        /\ awaiting_confirmation = FALSE

\* Lines 278-295: read a line; EOF, a blank line, an exit word, or a message.
ReadUserMessage ==
    /\ script = "experience_retriever_agent"
    /\ pc = "input"
    /\ \E line \in USER_INPUTS :
         /\ user_message' = Strip(line)
         /\ pc' = IF Strip(line) = "" THEN "input"
                  ELSE IF Lower(Strip(line)) \in EXIT_WORDS THEN "returned"
                  ELSE "agent"
    /\ tool_calls' = 0
    /\ last_tool' = ""
    /\ ret' = None
    /\ UNCHANGED <<script, session_state, profile_memory, result, awaiting_confirmation>>

\* Lines 280-282: input() raises EOFError.
ReadEOF ==
    /\ script = "experience_retriever_agent"
    /\ pc = "input"
    /\ pc' = "returned"
    /\ UNCHANGED <<script, session_state, profile_memory, user_message, result,
                   tool_calls, last_tool, ret, awaiting_confirmation>>

ToolCallAllowed ==
    /\ script = "experience_retriever_agent"
    /\ pc = "agent"
    /\ tool_calls < MaxToolCalls

Call_update_single_field(field_name, field_value) ==
    /\ ToolCallAllowed
    /\ last_tool' = "update_single_field"
    /\ LET r == update_single_field(session_state, field_name, field_value)
       IN /\ session_state' = r.state
          /\ ret' = r.ret
          /\ awaiting_confirmation' =
                (awaiting_confirmation
                 /\ r.ret # PyStr("Stored " \o Strip(field_name) \o "."))
    /\ tool_calls' = tool_calls + 1
    /\ UNCHANGED <<script, pc, profile_memory, user_message, result>>

Call_update_multiple_fields(updates) ==
    /\ ToolCallAllowed
    /\ last_tool' = "update_multiple_fields"
    /\ LET r == update_multiple_fields(session_state, updates)
       IN /\ session_state' = r.state
          /\ ret' = r.ret
          /\ awaiting_confirmation' =
                (awaiting_confirmation /\ r.ret = PyStr("No valid fields provided."))
    /\ tool_calls' = tool_calls + 1
    /\ UNCHANGED <<script, pc, profile_memory, user_message, result>>

Call_confirm_data_from_user ==
    /\ ToolCallAllowed
    /\ last_tool' = "confirm_data_from_user"
    /\ LET r == confirm_data_from_user(session_state)
       IN /\ session_state' = r.state
          /\ ret' = r.ret
    /\ awaiting_confirmation' = TRUE
    /\ tool_calls' = tool_calls + 1
    /\ UNCHANGED <<script, pc, profile_memory, user_message, result>>

Call_confirm_completeness ==
    /\ ToolCallAllowed
    /\ last_tool' = "confirm_completeness"
    /\ LET r == confirm_completeness(session_state)
       IN /\ session_state' = r.state
          /\ ret' = r.ret
    /\ tool_calls' = tool_calls + 1
    /\ UNCHANGED <<script, pc, profile_memory, user_message, result, awaiting_confirmation>>

\* Lines 302-318, after agent.run returned.
AfterAgentRun ==
    /\ script = "experience_retriever_agent"
    /\ pc = "agent"
    /\ IF Truthy(Get(session_state, "session_complete"))
       THEN /\ pc' = "returned"
            /\ result' = IF Truthy(Get(session_state, "completed_event"))
                         THEN Get(session_state, "completed_event")
                         ELSE None
            /\ UNCHANGED <<session_state, tool_calls, last_tool, ret>>
       ELSE IF _is_confirmation_phrase(user_message)
               /\ _all_required_fields_present(session_state)
       THEN LET fin == _finalize_completed_event(session_state)
            IN /\ session_state' = fin.state
               /\ result' = fin.event_details
               /\ pc' = "returned"
               /\ UNCHANGED <<tool_calls, last_tool, ret>>
       ELSE /\ pc' = "input"
            /\ tool_calls' = 0
            /\ last_tool' = ""
            /\ ret' = None
            /\ UNCHANGED <<session_state, result>>
    /\ UNCHANGED <<script, profile_memory, user_message, awaiting_confirmation>>

NextExperience ==
    \/ ReadUserMessage
    \/ ReadEOF
    \/ \E field_name \in EVENT_FIELD_NAME_INPUTS,
          field_value \in EVENT_FIELD_VALUE_INPUTS :
            Call_update_single_field(field_name, field_value)
    \/ \E updates \in EVENT_UPDATES_INPUTS :
            Call_update_multiple_fields(updates)
    \/ Call_confirm_data_from_user
    \/ Call_confirm_completeness
    \/ AfterAgentRun

---------------------------------------------------------------------------
(* introduction_agent.py                                                   *)

PROFILE_FIELDS ==
    <<"name", "age", "current_occupation", "desired_career", "work_experience">>

\* UserProfile().model_dump()
EMPTY_PROFILE == [k \in Range(PROFILE_FIELDS) |-> None]

\* v is not None and v != ""
NonEmpty(v) == v # None /\ v # PyStr("")

\* Mutant of _merge_profile: a text arriving for a field that already holds
\* a text is appended to it.
_merge_profile_accumulates(memory, ss) ==
    LET in_state == PyOr(GetOr(ss, "user_profile", EmptyDict), EmptyDict)
        taken == {k \in DOMAIN in_state : NonEmpty(in_state[k])}
    IN [k \in DOMAIN memory \cup taken |->
            IF k \notin taken THEN memory[k]
            ELSE IF k \in DOMAIN memory /\ memory[k].type = "str"
                    /\ in_state[k].type = "str"
                 THEN PyStr(memory[k].val \o ", " \o in_state[k].val)
                 ELSE in_state[k]]

\* Mutant of _merge_profile: the remembered value takes precedence.
_merge_profile_memory_wins(memory, ss) ==
    LET in_state == PyOr(GetOr(ss, "user_profile", EmptyDict), EmptyDict)
        taken == {k \in DOMAIN in_state : NonEmpty(in_state[k])}
        held == {k \in DOMAIN memory : NonEmpty(memory[k])}
    IN [k \in DOMAIN memory \cup taken |->
            IF k \in taken \ held THEN in_state[k] ELSE memory[k]]

\* `memory` is the module-level profile_memory the function reads.
_merge_profile(memory, ss) ==
    LET in_state == PyOr(GetOr(ss, "user_profile", EmptyDict), EmptyDict)
        taken == {k \in DOMAIN in_state : NonEmpty(in_state[k])}
    IN [k \in DOMAIN memory \cup taken |->
            IF k \in taken THEN in_state[k] ELSE memory[k]]

\* The profile_memory after _persist_memory(profile).
_persist_memory(memory, profile) ==
    LET kept == {k \in DOMAIN profile : NonEmpty(profile[k])}
    IN [k \in DOMAIN memory \cup kept |->
            IF k \in kept THEN profile[k] ELSE memory[k]]

Digits == "0123456789"

IsDigit(c) == \E i \in 1..Len(Digits) : SubSeq(Digits, i, i) = c

DigitValue(c) == (CHOOSE i \in 1..Len(Digits) : SubSeq(Digits, i, i) = c) - 1

RECURSIVE AllDigits(_)
AllDigits(s) == Len(s) = 0 \/ (IsDigit(Head(s)) /\ AllDigits(Tail(s)))

\* Digits with single underscores between them, as int() accepts: 1_000
RECURSIVE DigitsWithUnderscores(_)
DigitsWithUnderscores(s) ==
    /\ Len(s) > 0
    /\ IsDigit(Head(s))
    /\ \/ Len(s) = 1
       \/ DigitsWithUnderscores(Tail(s))
       \/ (Len(s) > 2 /\ SubSeq(s, 2, 2) = "_"
           /\ DigitsWithUnderscores(SubSeq(s, 3, Len(s))))

\* The value of a digit string; underscores are passed over.
RECURSIVE DecimalValue(_)
DecimalValue(s) ==
    IF Len(s) = 0 THEN 0
    ELSE IF SubSeq(s, Len(s), Len(s)) = "_"
    THEN DecimalValue(SubSeq(s, 1, Len(s) - 1))
    ELSE 10 * DecimalValue(SubSeq(s, 1, Len(s) - 1))
         + DigitValue(SubSeq(s, Len(s), Len(s)))

\* s.split()[0] for a string with a non-whitespace character
RECURSIVE UntilWhitespace(_)
UntilWhitespace(s) ==
    IF Len(s) = 0 \/ Head(s) \in Whitespace THEN ""
    ELSE Head(s) \o UntilWhitespace(Tail(s))

FirstToken(s) == UntilWhitespace(LStrip(s))

\* int(token) accepts an optional sign followed by decimal digits, which
\* single underscores may separate.
IsIntLiteral(tok) ==
    LET body == IF Len(tok) > 0 /\ Head(tok) \in {"+", "-"} THEN Tail(tok) ELSE tok
    IN Len(body) > 0 /\ (AllDigits(body) \/ DigitsWithUnderscores(body))

IntOf(tok) ==
    IF Head(tok) = "-" THEN 0 - DecimalValue(Tail(tok))
    ELSE IF Head(tok) = "+" THEN DecimalValue(Tail(tok))
    ELSE DecimalValue(tok)

\* Mutant of CoerceAge: int() is given the whole stripped text, not its first token.
CoerceAge_whole_text(value) ==
    LET text == Strip(ToStr(value))
    IN IF text = "" THEN value
       ELSE IF IsIntLiteral(text) THEN PyInt(IntOf(text))
       ELSE value

\* The try/except of lines 64-68 and 85-89:
\* int(str(value).strip().split()[0]), or the value as it was on any exception.
CoerceAge(value) ==
    LET text == Strip(ToStr(value))
    IN IF text = "" THEN value
       ELSE IF IsIntLiteral(FirstToken(text)) THEN PyInt(IntOf(FirstToken(text)))
       ELSE value

\* Mutant of update_profile: new data reopens a confirmed profile.
update_profile_reopens(memory, ss, field, value) ==
    LET value1 == IF field = "age" THEN CoerceAge(value) ELSE value
        profile == Put(_merge_profile(memory, ss), field, value1)
    IN [state |-> Put(Put(ss, "user_profile", profile),
                      "profile_confirmed", PyBool(FALSE)),
        memory |-> _persist_memory(memory, profile),
        ret |-> PyStr("Updated " \o field \o ": " \o ToStr(value1))]

\* The tools return [state |-> session state, memory |-> profile_memory, ret |-> value].
update_profile(memory, ss, field, value) ==
    LET value1 == IF field = "age" THEN CoerceAge(value) ELSE value
        profile == Put(_merge_profile(memory, ss), field, value1)
    IN [state |-> Put(ss, "user_profile", profile),
        memory |-> _persist_memory(memory, profile),
        ret |-> PyStr("Updated " \o field \o ": " \o ToStr(value1))]

\* The loop of lines 82-90 over updates.items(), in the mapping's order.
RECURSIVE ApplyProfileUpdates(_, _)
ApplyProfileUpdates(profile, updates) ==
    IF Len(updates) = 0 THEN profile
    ELSE LET field == updates[1][1]
             value == updates[1][2]
         IN IF value = None \/ value = PyStr("")
            THEN ApplyProfileUpdates(profile, Tail(updates))
            ELSE ApplyProfileUpdates(
                     Put(profile, field,
                         IF field = "age" THEN CoerceAge(value) ELSE value),
                     Tail(updates))

\* repr of a list of strings: ['a', 'b']
ListRepr(seq) ==
    "[" \o Join(", ", [i \in DOMAIN seq |-> "'" \o seq[i] \o "'"]) \o "]"

intro_update_multiple_fields(memory, ss, updates) ==
    LET profile == ApplyProfileUpdates(_merge_profile(memory, ss), updates)
    IN [state |-> Put(ss, "user_profile", profile),
        memory |-> _persist_memory(memory, profile),
        ret |-> PyStr("Updated multiple fields: "
                        \o ListRepr([i \in DOMAIN updates |-> updates[i][1]]))]

confirm_profile(memory, ss) ==
    [state |-> Put(ss, "profile_confirmed", PyBool(TRUE)),
     memory |-> memory,
     ret |-> PyStr("Profile confirmed!")]

\* The list built by lines 108-119.
profile_missing_fields(ss) ==
    SelectSeq(PROFILE_FIELDS,
              LAMBDA field : ~Truthy(Get(ss["user_profile"], field)))

check_profile_completeness(memory, ss) ==
    [state |-> ss,
     memory |-> memory,
     ret |-> IF profile_missing_fields(ss) # <<>>
             THEN PyStr("Missing fields: " \o ListRepr(profile_missing_fields(ss)))
             ELSE PyStr("Profile is complete")]

---------------------------------------------------------------------------
(* Inputs of the coaching session.                                         *)

\* (field, value) arguments the runtime passes to update_profile.
PROFILE_UPDATE_INPUTS ==
    { <<"name", PyStr("Ann")>>, <<"name", PyStr("")>>,
      <<"age", PyStr("25 years old")>>, <<"age", PyStr("0")>>,
      <<"age", PyStr("old")>>,
      <<"current_occupation", PyStr("dev")>>, <<"current_occupation", PyStr("  ")>>,
      <<"desired_career", PyStr("lead")>>,
      <<"work_experience", PyStr("4 years")>>, <<"work_experience", None>>,
      <<"hobby", PyStr("chess")>> }

\* `updates` mappings passed to update_multiple_fields, as their items in order.
PROFILE_UPDATES_INPUTS ==
    { <<>>,
      << <<"name", PyStr("Ann")>>, <<"age", PyInt(25)>>,
         <<"current_occupation", PyStr("dev")>> >>,
      << <<"work_experience", PyStr("4 years")>>, <<"desired_career", PyStr("lead")>> >>,
      << <<"name", PyStr("")>>, <<"age", None>>, <<"current_occupation", PyStr("  ")>> >>,
      << <<"hobby", PyStr("chess")>>, <<"age", PyStr(" 0 ")>> >> }

\* Keys of user_profile that survive when the runtime starts a turn with a
\* session state it did not round-trip in full: none, or the first two.
ROUND_TRIP_INPUTS == { {}, {"name", "age"} }

\* Lines typed at the prompt.
COACH_USER_INPUTS == {"", "I am Ann", " Bye "}

---------------------------------------------------------------------------
(* run_coaching_session and the tools the runtime calls                    *)

\* run_coaching_session() as __main__ calls it: no name, no age.
InitIntroduction ==
    /\ script = "introduction_agent"
    /\ session_state = [user_profile |-> EMPTY_PROFILE,
                        profile_confirmed |-> PyBool(FALSE)]
    /\ profile_memory = _persist_memory(EMPTY_PROFILE, EMPTY_PROFILE)
    /\ pc = "input"
    /\ user_message = ""
    /\ result = None
    /\ tool_calls = 0
    /\ last_tool = ""
    /\ ret = None
    /\ awaiting_confirmation = FALSE

\* Lines 234-243: an exit word ends the session, a blank line is skipped,
\* any other line is handed to the agent.
CoachReadInput ==
    /\ script = "introduction_agent"
    /\ pc = "input"
    /\ \E line \in COACH_USER_INPUTS :
         /\ user_message' = Strip(line)
         /\ pc' = IF Lower(Strip(line)) \in {"exit", "quit", "bye"} THEN "done"
                  ELSE IF Strip(line) = "" THEN "input"
                  ELSE "agent"
    /\ tool_calls' = 0
    /\ last_tool' = ""
    /\ ret' = None
    /\ UNCHANGED <<script, session_state, profile_memory, result, awaiting_confirmation>>

CoachToolCallAllowed ==
    /\ script = "introduction_agent"
    /\ pc = "agent"
    /\ tool_calls < MaxToolCalls

\* The tool's effect on session_state and profile_memory, and its return value.
CoachReturn(tool, r) ==
    /\ last_tool' = tool
    /\ session_state' = r.state
    /\ profile_memory' = r.memory
    /\ ret' = r.ret
    /\ tool_calls' = tool_calls + 1
    /\ UNCHANGED <<script, pc, user_message, result, awaiting_confirmation>>

Call_update_profile(field, value) ==
    /\ CoachToolCallAllowed
    /\ CoachReturn("update_profile",
                   update_profile(profile_memory, session_state, field, value))

Call_intro_update_multiple_fields(updates) ==
    /\ CoachToolCallAllowed
    /\ CoachReturn("update_multiple_fields",
                   intro_update_multiple_fields(profile_memory, session_state, updates))

Call_confirm_profile ==
    /\ CoachToolCallAllowed
    /\ CoachReturn("confirm_profile",
                   confirm_profile(profile_memory, session_state))

Call_check_profile_completeness ==
    /\ CoachToolCallAllowed
    /\ CoachReturn("check_profile_completeness",
                   check_profile_completeness(profile_memory, session_state))

\* Between turns the runtime does not round-trip the full state: user_profile
\* keeps only the keys in `kept`, the others go back to None.
RuntimeLosesProfile(kept) ==
    /\ script = "introduction_agent"
    /\ pc = "input"
    /\ session_state' =
          Put(session_state, "user_profile",
              [k \in Range(PROFILE_FIELDS) |->
                  IF k \in kept THEN Get(session_state["user_profile"], k) ELSE None])
    /\ UNCHANGED <<script, pc, profile_memory, user_message, result, tool_calls,
                   last_tool, ret, awaiting_confirmation>>

\* Lines 246-275: the session ends once profile_confirmed is set.
CoachAfterResponse ==
    /\ script = "introduction_agent"
    /\ pc = "agent"
    /\ pc' = IF Truthy(GetOr(session_state, "profile_confirmed", PyBool(FALSE)))
             THEN "done" ELSE "input"
    /\ tool_calls' = 0
    /\ last_tool' = ""
    /\ ret' = None
    /\ UNCHANGED <<script, session_state, profile_memory, user_message, result,
                   awaiting_confirmation>>

NextIntroduction ==
    \/ CoachReadInput
    \/ \E u \in PROFILE_UPDATE_INPUTS : Call_update_profile(u[1], u[2])
    \/ \E updates \in PROFILE_UPDATES_INPUTS :
            Call_intro_update_multiple_fields(updates)
    \/ Call_confirm_profile
    \/ Call_check_profile_completeness
    \/ \E kept \in ROUND_TRIP_INPUTS : RuntimeLosesProfile(kept)
    \/ CoachAfterResponse

---------------------------------------------------------------------------

Init == InitExperience \/ InitIntroduction

Next == NextExperience \/ NextIntroduction

Spec == Init /\ [][Next]_vars

\* profile_data that already carries a current_event: _initial_session_state
\* copies every key of profile_data (line 236) and setdefault keeps the one
\* it finds (line 239), so the session starts from the seeded record.
SEEDED_PROFILE_DATA_INPUTS ==
    { [name |-> PyStr("Al"),
       current_event |-> [event_overview |-> PyStr("trip"),
                          when_happened |-> PyStr("2019"),
                          what_happened |-> PyStr("trip"),
                          peak_moment |-> PyStr("  ")]],
      [name |-> PyStr("Al"),
       current_event |-> [event_overview |-> PyStr(" trip "),
                          peak_moment |-> PyStr("")]] }

InitSeeded ==
    \E profile_data \in SEEDED_PROFILE_DATA_INPUTS :
        /\ script = "experience_retriever_agent"
        /\ session_state = _initial_session_state(profile_data)
        /\ profile_memory = EmptyDict
        /\ pc = IF Truthy(Get(profile_data, "name")) THEN "input" ELSE "raised"
        /\ user_message = ""
        /\ result = None
        /\ tool_calls = 0
        /\ last_tool = ""
        /\ ret = None
        /\ awaiting_confirmation = FALSE

\* run_experience_session started with a seeded profile_data.
SpecSeeded == InitSeeded /\ [][NextExperience]_vars

---------------------------------------------------------------------------
(* _merge_profile on its own: any remembered record with any session state *)

\* Records profile_memory can hold: _persist_memory never stores None or "".
MERGE_MEMORY_INPUTS ==
    { [name |-> n, age |-> a, current_occupation |-> o,
       desired_career |-> None, work_experience |-> None] :
         n \in {None, PyStr("Ann")},
         a \in {None, PyInt(25), PyInt(0)},
         o \in {None, PyStr("dev"), PyStr("  ")} }

\* Session states handed to _merge_profile: full records, a partial record
\* with a key of its own, user_profile None, and no user_profile at all.
MERGE_STATE_INPUTS ==
    { [user_profile |-> [name |-> n, age |-> a, current_occupation |-> o,
                         desired_career |-> None, work_experience |-> None],
       profile_confirmed |-> PyBool(FALSE)] :
         n \in {None, PyStr(""), PyStr("Bob")},
         a \in {None, PyStr(""), PyInt(0), PyInt(30)},
         o \in {None, PyStr("dev")} }
    \cup { [user_profile |-> [name |-> PyStr("Bob"), hobby |-> PyStr("chess")]],
           [user_profile |-> [hobby |-> PyStr("")]],
           [user_profile |-> None],
           EmptyDict }

InitMerge ==
    \E memory \in MERGE_MEMORY_INPUTS, ss \in MERGE_STATE_INPUTS :
        /\ script = "introduction_agent"
        /\ session_state = ss
        /\ profile_memory = memory
        /\ pc = "merge"
        /\ user_message = ""
        /\ result = None
        /\ tool_calls = 0
        /\ last_tool = ""
        /\ ret = None
        /\ awaiting_confirmation = FALSE

\* One call of _merge_profile(session_state); `ret` is the dict it returns.
\* The function works on a deepcopy of profile_memory (line 44) and only
\* reads session_state.
Call_merge_profile ==
    /\ script = "introduction_agent"
    /\ pc = "merge"
    /\ ret' = _merge_profile(profile_memory, session_state)
    /\ pc' = "merged"
    /\ last_tool' = "_merge_profile"
    /\ UNCHANGED <<script, session_state, profile_memory, user_message, result,
                   tool_calls, awaiting_confirmation>>

SpecMerge == InitMerge /\ [][Call_merge_profile]_vars

---------------------------------------------------------------------------
(* Observations used by the properties below.                              *)

IsExperience == script = "experience_retriever_agent"

IsIntroduction == script = "introduction_agent"

SessionComplete(ss) == Truthy(GetOr(ss, "session_complete", PyBool(FALSE)))

ProfileConfirmed(ss) == Truthy(GetOr(ss, "profile_confirmed", PyBool(FALSE)))

CurrentEvent(ss) == GetOr(ss, "current_event", EmptyDict)

\* Key k is present in both dicts with the same value, or absent from both.
SameAt(d1, d2, k) ==
    /\ (k \in DOMAIN d1) <=> (k \in DOMAIN d2)
    /\ k \in DOMAIN d1 => d1[k] = d2[k]

\* A str with a character that is not whitespace.
NonBlankStr(v) == ~IsDict(v) /\ v.type = "str" /\ Strip(v.val) # ""

AllEventFieldsNonEmpty(ss) ==
    \A f \in Range(REQUIRED_EVENT_FIELDS) :
        f \in DOMAIN CurrentEvent(ss) /\ NonBlankStr(CurrentEvent(ss)[f])

\* This step sets session_complete.
BecomesComplete ==
    IsExperience /\ ~SessionComplete(session_state) /\ SessionComplete(session_state')

\* This step is a call of one of the named tools.
ToolStep(tools) == tool_calls' = tool_calls + 1 /\ last_tool' \in tools

RetStatus(r) == IF IsDict(r) /\ "status" \in DOMAIN r THEN r.status.val ELSE ""

---------------------------------------------------------------------------
(* C1..C10                                                                 *)

\* C1: session_complete becomes true only in a step at whose moment all four
\* required event fields are non-empty, and a confirm_completeness call made
\* while a field is missing returns status "incomplete" and leaves
\* session_complete and completed_event as they were.
C1_CompleteOnlyWithAllFields ==
    [][ /\ BecomesComplete =>
              AllEventFieldsNonEmpty(session_state)
              /\ AllEventFieldsNonEmpty(session_state')
        /\ (IsExperience /\ ToolStep({"confirm_completeness"})
               /\ ~AllEventFieldsNonEmpty(session_state)) =>
              /\ RetStatus(ret') = "incomplete"
              /\ SameAt(session_state, session_state', "session_complete")
              /\ SameAt(session_state, session_state', "completed_event")
      ]_vars

\* C1 witness: confirm_completeness has completed a record with all four fields.
C1_Witness ==
    /\ IsExperience
    /\ last_tool = "confirm_completeness"
    /\ RetStatus(ret) = "complete"
    /\ SessionComplete(session_state)
    /\ AllEventFieldsNonEmpty(session_state)

\* C2 (as claimed): profile_confirmed becomes true only in a step at whose
\* moment all five profile fields of user_profile are non-empty.
C2_ConfirmedOnlyWhenComplete ==
    [][ (IsIntroduction /\ ~ProfileConfirmed(session_state)
            /\ ProfileConfirmed(session_state')) =>
           \A f \in Range(PROFILE_FIELDS) :
               NonEmpty(Get(session_state'["user_profile"], f))
      ]_vars

\* C3 (as claimed): the record is completed only in a turn whose user message,
\* trimmed and lower-cased, is an accepted confirmation phrase.
C3_CompleteOnlyOnConfirmation ==
    [][ BecomesComplete => Lower(Strip(user_message')) \in CONFIRMATION_PHRASES ]_vars

\* C4 (as claimed): the record is finalized only after a show-summary request
\* (confirm_data_from_user) with no field data stored since.
C4_CompleteOnlyAfterSummary ==
    [][ BecomesComplete => awaiting_confirmation ]_vars

\* C5: once session_complete (event tracker) or profile_confirmed (profile
\* tracker) is true, no step of the session makes it false again.
C5_CompletionIsOneWay ==
    [][ /\ SessionComplete(session_state) => SessionComplete(session_state')
        /\ ProfileConfirmed(session_state) => ProfileConfirmed(session_state')
      ]_vars

\* C5 witness: a profile field was updated after the profile was confirmed.
C5_Witness ==
    /\ IsIntroduction
    /\ ProfileConfirmed(session_state)
    /\ last_tool = "update_profile"
    /\ tool_calls = 2

\* C6: once the record is complete, a call of update_single_field or
\* update_multiple_fields leaves completed_event unchanged in every field.
C6_SnapshotKeptByUpdates ==
    [][ (IsExperience /\ SessionComplete(session_state)
            /\ ToolStep({"update_single_field", "update_multiple_fields"})) =>
           /\ "completed_event" \in DOMAIN session_state
           /\ SameAt(session_state, session_state', "completed_event")
      ]_vars

\* C6 witness: after completion update_single_field stored a peak_moment that
\* differs from the one in the snapshot.
C6_Witness ==
    /\ IsExperience
    /\ SessionComplete(session_state)
    /\ last_tool = "update_single_field"
    /\ ret = PyStr("Stored peak_moment.")
    /\ CurrentEvent(session_state)["peak_moment"]
          # session_state["completed_event"]["peak_moment"]

\* C7 (as claimed): after session_complete is true no tool call changes
\* current_event or replaces completed_event by a different value.
C7_CompleteIsTerminal ==
    [][ (IsExperience /\ SessionComplete(session_state)
            /\ ToolStep({"update_single_field", "update_multiple_fields",
                         "confirm_data_from_user", "confirm_completeness"})) =>
           /\ SameAt(session_state, session_state', "current_event")
           /\ SameAt(session_state, session_state', "completed_event")
      ]_vars

\* C8: in every reachable session state, update_single_field with a required
\* field name f and a value v that is non-empty after trimming stores trim(v)
\* under f, overwriting what was there, and leaves the other fields of
\* current_event as they were (" 2019 " is stored as "2019").
C8_StoresTrimmedValue ==
    IsExperience =>
        /\ \A f \in Range(REQUIRED_EVENT_FIELDS), v \in EVENT_FIELD_VALUE_INPUTS :
              (v # None /\ Strip(v.val) # "") =>
                  LET before == CurrentEvent(session_state)
                      after == CurrentEvent(update_single_field(session_state, f, v).state)
                  IN /\ DOMAIN after = DOMAIN before \cup {f}
                     /\ after[f] = PyStr(Strip(v.val))
                     /\ \A g \in DOMAIN before \ {f} : after[g] = before[g]
        /\ CurrentEvent(update_single_field(session_state, "when_happened",
                                            PyStr(" 2019 ")).state)["when_happened"]
              = PyStr("2019")

\* C8 witness: update_single_field stored the trimmed "2019" as when_happened,
\* next to the event_overview stored before it.
C8_Witness ==
    /\ IsExperience
    /\ last_tool = "update_single_field"
    /\ ret = PyStr("Stored when_happened.")
    /\ tool_calls = 2
    /\ Get(CurrentEvent(session_state), "when_happened") = PyStr("2019")
    /\ Get(CurrentEvent(session_state), "event_overview") = PyStr("trip")

InvalidFieldDiagnostic ==
    PyStr("Invalid field. Use one of: event_overview, when_happened, what_happened, peak_moment")

EmptyAfterTrim(v) == v = None \/ Strip(v.val) = ""

\* C9 (as claimed): update_single_field called with a field name outside the
\* recognized set, or with a value that is empty after trimming, returns a
\* diagnostic string and leaves the whole session state unchanged.
C9_RejectsNameOutsideSet ==
    IsExperience =>
        \A n \in EVENT_FIELD_NAME_INPUTS, v \in EVENT_FIELD_VALUE_INPUTS :
            (n \notin Range(REQUIRED_EVENT_FIELDS) \/ EmptyAfterTrim(v)) =>
                LET r == update_single_field(session_state, n, v)
                IN /\ r.state = session_state
                   /\ r.ret \in {InvalidFieldDiagnostic,
                                 PyStr("No update made to " \o Strip(n) \o ".")}

\* C9 (amended): update_single_field called with a field name that is outside
\* the recognized set after trimming surrounding whitespace, or with a value
\* that is empty after trimming, returns a diagnostic string and leaves the
\* whole session state unchanged.
C9_RejectsInvalidUpdates ==
    IsExperience =>
        \A n \in EVENT_FIELD_NAME_INPUTS, v \in EVENT_FIELD_VALUE_INPUTS :
            (Strip(n) \notin Range(REQUIRED_EVENT_FIELDS) \/ EmptyAfterTrim(v)) =>
                LET r == update_single_field(session_state, n, v)
                IN /\ r.state = session_state
                   /\ r.ret \in {InvalidFieldDiagnostic,
                                 PyStr("No update made to " \o Strip(n) \o ".")}

\* C9 witness: update_single_field returned a diagnostic on a record that
\* already holds a field.
C9_Witness ==
    /\ IsExperience
    /\ last_tool = "update_single_field"
    /\ tool_calls = 2
    /\ ret \in {InvalidFieldDiagnostic, PyStr("No update made to peak_moment.")}
    /\ DOMAIN CurrentEvent(session_state) = {"event_overview"}

BlankValue(v) == v = None \/ (v.type = "str" /\ Strip(v.val) = "")

\* C10 (as claimed): update_profile and update_multiple_fields called with a
\* field name outside the five profile fields, or with an empty or
\* whitespace-only value, leave user_profile and profile_memory unchanged.
C10_InvalidProfileUpdatesIgnored ==
    IsIntroduction =>
        /\ \A u \in PROFILE_UPDATE_INPUTS :
              (u[1] \notin Range(PROFILE_FIELDS) \/ BlankValue(u[2])) =>
                  LET r == update_profile(profile_memory, session_state, u[1], u[2])
                  IN /\ r.state["user_profile"] = session_state["user_profile"]
                     /\ r.memory = profile_memory
        /\ \A updates \in PROFILE_UPDATES_INPUTS :
              (\A i \in DOMAIN updates :
                    updates[i][1] \notin Range(PROFILE_FIELDS)
                    \/ BlankValue(updates[i][2])) =>
                  LET r == intro_update_multiple_fields(profile_memory, session_state,
                                                        updates)
                  IN /\ r.state["user_profile"] = session_state["user_profile"]
                     /\ r.memory = profile_memory

---------------------------------------------------------------------------
(* C11..C20                                                                *)

\* C11 (as claimed): a profile field that holds a non-empty value in
\* profile_memory (so it was non-empty after an earlier call) still holds a
\* non-empty value in both user_profile and profile_memory after every later
\* call of update_profile or update_multiple_fields.
C11_CollectedValuesNeverLost ==
    [][(IsIntroduction /\ ToolStep({"update_profile", "update_multiple_fields"})) =>
          \A k \in DOMAIN profile_memory :
              NonEmpty(profile_memory[k]) =>
                  /\ k \in DOMAIN session_state'["user_profile"]
                  /\ NonEmpty(session_state'["user_profile"][k])
                  /\ k \in DOMAIN profile_memory'
                  /\ NonEmpty(profile_memory'[k])]_vars

\* C12 (as claimed): in every state of the event tracker, states seeded from
\* profile_data included, the missing-field list of confirm_completeness is
\* empty exactly when every required field is non-empty after trimming, and
\* so is _all_required_fields_present true; hence the two checks agree.
C12_CompletenessChecksAgree ==
    IsExperience =>
        /\ (missing_fields(session_state) = <<>>)
              <=> AllEventFieldsNonEmpty(session_state)
        /\ _all_required_fields_present(session_state)
              <=> AllEventFieldsNonEmpty(session_state)
        /\ (missing_fields(session_state) = <<>>)
              <=> _all_required_fields_present(session_state)

\* A profile value that is non-empty after trimming: not None, and its text
\* has a character that is not whitespace (the integer 0 reads "0").
NonBlankProfileValue(v) == v # None /\ Strip(ToStr(v)) # ""

\* C13 (as claimed): check_profile_completeness returns "Profile is complete"
\* exactly when all five profile fields are non-empty after trimming, and
\* otherwise lists exactly the fields that are not; a stored age of 0 and a
\* whitespace-only string are classified by that rule.
C13_ProfileCompleteByTrimmedValues ==
    IsIntroduction =>
        LET profile == session_state["user_profile"]
            expected == SelectSeq(PROFILE_FIELDS,
                            LAMBDA f : ~(f \in DOMAIN profile
                                         /\ NonBlankProfileValue(profile[f])))
        IN check_profile_completeness(profile_memory, session_state).ret
              = IF expected = <<>> THEN PyStr("Profile is complete")
                ELSE PyStr("Missing fields: " \o ListRepr(expected))

\* The required fields that hold no value in current_event, in the order of
\* REQUIRED_EVENT_FIELDS.
FieldsWithoutValue(ss) ==
    SelectSeq(REQUIRED_EVENT_FIELDS,
              LAMBDA f : \/ f \notin DOMAIN CurrentEvent(ss)
                         \/ CurrentEvent(ss)[f] \in {None, PyStr("")})

\* C14: while at least one required field has no value, confirm_completeness
\* returns status "incomplete" with missing_fields equal to the required
\* fields without a value, in canonical order, and leaves the session state
\* as it was; with only event_overview and when_happened stored the list is
\* [what_happened, peak_moment].
C14_IncompleteListsMissingFields ==
    IsExperience =>
        LET r == confirm_completeness(session_state)
        IN /\ FieldsWithoutValue(session_state) # <<>> =>
                 /\ r.state = session_state
                 /\ RetStatus(r.ret) = "incomplete"
                 /\ r.ret.missing_fields = FieldsWithoutValue(session_state)
           /\ DOMAIN CurrentEvent(session_state) = {"event_overview", "when_happened"} =>
                 /\ RetStatus(r.ret) = "incomplete"
                 /\ r.ret.missing_fields = <<"what_happened", "peak_moment">>

\* confirm_completeness was called with event_overview and when_happened
\* stored and answered [what_happened, peak_moment].
C14_Witness ==
    /\ IsExperience
    /\ last_tool = "confirm_completeness"
    /\ RetStatus(ret) = "incomplete"
    /\ ret.missing_fields = <<"what_happened", "peak_moment">>
    /\ DOMAIN CurrentEvent(session_state) = {"event_overview", "when_happened"}
    /\ ~SessionComplete(session_state)

\* The record _merge_profile reads from a session state.
IncomingProfile(ss) ==
    IF "user_profile" \in DOMAIN ss /\ IsDict(ss["user_profile"])
    THEN ss["user_profile"] ELSE EmptyDict

\* C15: _merge_profile is idempotent: merging the remembered record with the
\* result of a merge gives that result again.
C15_MergeIdempotent ==
    (IsIntroduction /\ pc = "merged") =>
        _merge_profile(profile_memory, [user_profile |-> ret]) = ret

\* A merge whose result is neither the remembered record nor the incoming one.
C15_Witness ==
    /\ IsIntroduction
    /\ pc = "merged"
    /\ ret # profile_memory
    /\ ret # IncomingProfile(session_state)
    /\ ret["name"] = PyStr("Bob")
    /\ profile_memory["name"] = PyStr("Ann")
    /\ ret["age"] = PyInt(25)

\* C16: _merge_profile returns, key by key, the incoming value of
\* session_state["user_profile"] when that value is neither None nor "", and
\* otherwise what profile_memory holds for the key; the call changes neither
\* profile_memory nor the session state.
C16_MergePrefersNonEmptyIncoming ==
    [][(IsIntroduction /\ pc = "merge" /\ pc' = "merged") =>
          LET incoming == IncomingProfile(session_state)
          IN /\ profile_memory' = profile_memory
             /\ session_state' = session_state
             /\ DOMAIN ret' \subseteq DOMAIN profile_memory \cup DOMAIN incoming
             /\ \A k \in DOMAIN profile_memory \cup DOMAIN incoming :
                   IF k \in DOMAIN incoming
                      /\ incoming[k] # None /\ incoming[k] # PyStr("")
                   THEN k \in DOMAIN ret' /\ ret'[k] = incoming[k]
                   ELSE SameAt(ret', profile_memory, k)]_vars

\* A merge that took the age 0 from the session state over the remembered 25
\* and kept the remembered name over an empty incoming one.
C16_Witness ==
    /\ IsIntroduction
    /\ pc = "merged"
    /\ profile_memory["age"] = PyInt(25)
    /\ profile_memory["name"] = PyStr("Ann")
    /\ IncomingProfile(session_state) # EmptyDict
    /\ "name" \in DOMAIN IncomingProfile(session_state)
    /\ IncomingProfile(session_state)["name"] = PyStr("")
    /\ ret["age"] = PyInt(0)
    /\ ret["name"] = PyStr("Ann")

\* The field names of both trackers in lexicographic order.
LexicographicOrder ==
    <<"age", "current_occupation", "desired_career", "event_overview", "name",
      "peak_moment", "what_happened", "when_happened", "work_experience">>

\* The names applied by an `updates` mapping: recognized names whose value
\* is non-empty after trimming, sorted.
AppliedNames(updates, recognized) ==
    SelectSeq(LexicographicOrder,
              LAMBDA f : \E i \in DOMAIN updates :
                            /\ updates[i][1] = f
                            /\ f \in recognized
                            /\ ~BlankValue(updates[i][2]))

\* C17 (as claimed): in both trackers update_multiple_fields reports exactly
\* the field names it applied, entries with an unrecognized name or an empty
\* value left out, in lexicographically sorted order.
C17_ReportsAppliedNamesSorted ==
    /\ IsExperience =>
          \A updates \in EVENT_UPDATES_INPUTS :
              LET applied == AppliedNames(updates, Range(REQUIRED_EVENT_FIELDS))
              IN update_multiple_fields(session_state, updates).ret
                    = IF applied = <<>> THEN PyStr("No valid fields provided.")
                      ELSE PyStr("Stored fields: " \o Join(", ", applied))
    /\ IsIntroduction =>
          \A updates \in PROFILE_UPDATES_INPUTS :
              LET applied == AppliedNames(updates, Range(PROFILE_FIELDS))
              IN intro_update_multiple_fields(profile_memory, session_state,
                                              updates).ret
                    = PyStr("Updated multiple fields: " \o ListRepr(applied))

\* update_single_field applied to the items of `updates`, one after another.
RECURSIVE ApplyEachSingle(_, _)
ApplyEachSingle(ss, updates) ==
    IF Len(updates) = 0 THEN ss
    ELSE ApplyEachSingle(
             update_single_field(ss, updates[1][1], updates[1][2]).state,
             Tail(updates))

\* C18 (as claimed): update_multiple_fields(session_state, updates) leaves the
\* session state that applying update_single_field to each entry of updates
\* leaves, entries with surrounding whitespace in the name, unrecognized
\* names and empty values included.
C18_MultipleEqualsEachSingle ==
    IsExperience =>
        \A updates \in EVENT_UPDATES_INPUTS :
            update_multiple_fields(session_state, updates).state
                = ApplyEachSingle(session_state, updates)

\* Age values with what the claim says is stored for them: the integer of
\* the first whitespace-delimited token, or the value as given.
AgeExamples ==
    { <<PyStr("25 years old"), PyInt(25)>>, <<PyStr("0"), PyInt(0)>>,
      <<PyStr(" 30"), PyInt(30)>>, <<PyStr("-3 c"), PyInt(0 - 3)>>,
      <<PyStr("+7"), PyInt(7)>>, <<PyInt(25), PyInt(25)>>,
      <<PyStr("old"), PyStr("old")>>, <<PyStr("25years"), PyStr("25years")>>,
      <<PyStr("2.5"), PyStr("2.5")>>, <<PyStr("about 25"), PyStr("about 25")>>,
      <<PyStr("  "), PyStr("  ")>>, <<PyStr(""), PyStr("")>>, <<None, None>> }

\* C19: for the field "age", update_profile and update_multiple_fields store
\* the integer read from the first whitespace-delimited token of the value
\* when that token is an integer ("25 years old" gives 25), and the value as
\* given otherwise; a value that does not parse is stored, not refused.
C19_AgeCoercedFromFirstToken ==
    IsIntroduction =>
        \A c \in AgeExamples :
            /\ update_profile(profile_memory, session_state, "age", c[1])
                  .state["user_profile"]["age"] = c[2]
            /\ (c[1] # None /\ c[1] # PyStr("")) =>
                  intro_update_multiple_fields(profile_memory, session_state,
                                               << <<"age", c[1]>> >>)
                     .state["user_profile"]["age"] = c[2]

\* update_profile("age", "25 years old") has stored the integer 25.
C19_Witness ==
    /\ IsIntroduction
    /\ last_tool = "update_profile"
    /\ ret = PyStr("Updated age: 25")
    /\ session_state["user_profile"]["age"] = PyInt(25)
    /\ profile_memory["age"] = PyInt(25)

\* C20: when agent.run returns in a turn whose message is a confirmation
\* phrase (trimmed, case ignored) and all four required fields are then set,
\* the session ends in that turn and returns a finalized record with
\* is_complete = true and the four fields filled, whether or not
\* confirm_completeness was called during the turn.
C20_ConfirmationEndsSession ==
    [][(/\ IsExperience
        /\ pc = "agent"
        /\ pc' # "agent"
        /\ Lower(Strip(user_message)) \in CONFIRMATION_PHRASES
        /\ AllEventFieldsNonEmpty(session_state)) =>
          /\ pc' = "returned"
          /\ IsDict(result')
          /\ result'["is_complete"] = PyBool(TRUE)
          /\ \A f \in Range(REQUIRED_EVENT_FIELDS) : NonBlankStr(result'[f])
          /\ SessionComplete(session_state')]_vars

\* The user answered "Yes" in a turn without any tool call and the run loop
\* itself finalized the record.
C20_Witness ==
    /\ IsExperience
    /\ pc = "returned"
    /\ user_message = "Yes"
    /\ tool_calls = 0
    /\ IsDict(result)
    /\ result["is_complete"] = PyBool(TRUE)
    /\ SessionComplete(session_state)

---------------------------------------------------------------------------
(* C21..C22                                                                *)

\* The phase label a finalized record takes from stage and experience_no.
PhaseLabel(ss) ==
    IF "stage" \in DOMAIN ss /\ ss["stage"] \notin {None, PyStr("")}
    THEN ss["stage"]
    ELSE PyStr("experience_" \o ToStr(ss["experience_no"]))

\* C21: in every state reached from the initial session state,
\* session_complete = true implies that completed_event is present with
\* is_complete = true, all four event fields non-empty, and event_id,
\* event_number and event_phase taken from experience_no and stage; in the
\* step that sets session_complete the four event fields of completed_event
\* are the values current_event holds at that moment; so the run loop never
\* ends with "marked complete but could not prepare the summary".
C21_CompleteHasSnapshot ==
    /\ [](IsExperience /\ SessionComplete(session_state) =>
            /\ "completed_event" \in DOMAIN session_state
            /\ IsDict(session_state["completed_event"])
            /\ LET done == session_state["completed_event"]
               IN /\ done["is_complete"] = PyBool(TRUE)
                  /\ \A f \in Range(REQUIRED_EVENT_FIELDS) : NonBlankStr(done[f])
                  /\ done["event_id"] = session_state["experience_no"]
                  /\ done["event_number"] = session_state["experience_no"]
                  /\ done["event_phase"] = PhaseLabel(session_state)
            /\ (pc = "returned" => result = session_state["completed_event"]))
    /\ [][BecomesComplete =>
            /\ "completed_event" \in DOMAIN session_state'
            /\ \A f \in Range(REQUIRED_EVENT_FIELDS) :
                  /\ f \in DOMAIN CurrentEvent(session_state)
                  /\ session_state'["completed_event"][f]
                        = CurrentEvent(session_state)[f]
                  /\ CurrentEvent(session_state')[f] = CurrentEvent(session_state)[f]]_vars

\* A session of the profile with an empty stage label was completed by
\* confirm_completeness and returned the snapshot, labelled experience_1.
C21_Witness ==
    /\ IsExperience
    /\ SessionComplete(session_state)
    /\ pc = "returned"
    /\ last_tool = "confirm_completeness"
    /\ session_state["stage"] = PyStr("")
    /\ IsDict(result)
    /\ result["event_phase"] = PyStr("experience_1")
    /\ result = session_state["completed_event"]

\* C22: in a session started with an empty current_event, after any sequence
\* of update_single_field, update_multiple_fields, confirm_data_from_user and
\* confirm_completeness calls every key of current_event is one of the four
\* required fields and every value is a non-empty string without leading or
\* trailing whitespace.
C22_EventHoldsTrimmedRequiredFields ==
    IsExperience =>
        /\ "current_event" \in DOMAIN session_state
        /\ \A k \in DOMAIN CurrentEvent(session_state) :
              /\ k \in Range(REQUIRED_EVENT_FIELDS)
              /\ CurrentEvent(session_state)[k].type = "str"
              /\ CurrentEvent(session_state)[k].val # ""
              /\ Strip(CurrentEvent(session_state)[k].val)
                    = CurrentEvent(session_state)[k].val

\* All four fields are stored, what_happened from the padded value " trip "
\* given to update_multiple_fields.
C22_Witness ==
    /\ IsExperience
    /\ last_tool = "update_multiple_fields"
    /\ ret = PyStr("Stored fields: peak_moment, what_happened")
    /\ DOMAIN CurrentEvent(session_state) = Range(REQUIRED_EVENT_FIELDS)
    /\ CurrentEvent(session_state)["what_happened"] = PyStr("trip")

====
